---------------------------- MODULE Spec2Model ----------------------------
(***************************************************************************)
(* Veilon relayer: the proof generator service (shield, unshield,          *)
(* transfer, verifyProof) and the server start-up that initializes it.     *)
(*                                                                         *)
(* One invocation of the service is in flight at a time.  An async method  *)
(* is cut at its awaits: everything between two awaits is one action.      *)
(* Strings holding decimal field elements, amounts and recipients are      *)
(* integers; an absent (undefined) input is None.  The file system is the  *)
(* environment: each existence check reads a value the environment chose.  *)
(***************************************************************************)
EXTENDS Integers, Sequences, FiniteSets, TLC

(***************************************************************************)
(* Bounds of the model.                                                    *)
(***************************************************************************)
\* how many of the caller-mandatory fields of a request may be left out
MaxAbsent == 2
\* the values crypto.randomBytes can produce are 1..MaxRand
MaxRand == 2
\* the seeds the random coordinates of a proof object are expanded from
MaxSeed == 1
\* the largest amount, in whole units, a request body asks for
MaxAmount == 2

\* how many leading bytes of a random buffer vary freely
MaxVaried == 2

(***************************************************************************)
(* Values.                                                                 *)
(***************************************************************************)
None == -1

Ops == {"shield", "unshield", "transfer"}

AllFields ==
  << "amount", "recipient", "secret", "nullifier", "randomness",
     "outputAmount", "changeAmount", "inputCommitment",
     "changeSecret", "changeNullifier", "changeRandomness",
     "inputSecret", "inputNullifier", "inputRandomness",
     "outputSecret", "outputNullifier", "outputRandomness", "inputAmount" >>

FieldNames == {AllFields[i] : i \in 1..Len(AllFields)}

FieldIndex(f) == CHOOSE i \in 1..Len(AllFields) : AllFields[i] = f

\* The value a caller puts in a field: either every field carries its own
\* value (so that two exchanged fields show) or all carry the same value.
FieldVal(f, same) == IF same THEN 1 ELSE FieldIndex(f)

ShieldFields == {"amount", "recipient", "secret", "nullifier", "randomness"}

UnshieldFields ==
  {"inputAmount", "outputAmount", "changeAmount", "inputCommitment", "recipient",
   "secret", "nullifier", "randomness",
   "changeSecret", "changeNullifier", "changeRandomness"}

TransferFields ==
  {"inputCommitment", "inputAmount", "outputAmount", "changeAmount", "recipient",
   "inputSecret", "inputNullifier", "inputRandomness",
   "outputSecret", "outputNullifier", "outputRandomness",
   "changeSecret", "changeNullifier", "changeRandomness"}

\* fields of a freshly created note: the service draws what the caller omits
FreshFields == {"secret", "nullifier", "randomness"}
ChangeFields == {"changeSecret", "changeNullifier", "changeRandomness"}

MkInputs(present, same) ==
  [f \in FieldNames |-> IF f \in present THEN FieldVal(f, same) ELSE None]

\* The requests of one operation: any subset of its fields present, at most
\* MaxAbsent of the fields outside `free` absent.
Requests(fields, free) ==
  { MkInputs(fields \ A, same) :
      A \in {B \in SUBSET fields : Cardinality(B \ free) <= MaxAbsent},
      same \in BOOLEAN }

RandVals == 1..MaxRand
Seeds == 0..MaxSeed

\* x || d
Or(x, d) == IF x = None THEN d ELSE x

(***************************************************************************)
(* Poseidon.  The hash of a sequence of field elements is an integer that  *)
(* determines the sequence (its length included) and is no caller value.   *)
(***************************************************************************)
HashBase == 32

RECURSIVE Fold(_)
Fold(s) == IF s = <<>> THEN 0 ELSE Fold(SubSeq(s, 1, Len(s) - 1)) * HashBase + s[Len(s)]

Poseidon(s) == Len(s) * 100000 + Fold(s)

\* hash throws a TypeError: BigInt(undefined) in the map over its inputs, or
\* else the call of this.poseidon while it is unset; "none" when it returns
hashError(loaded, s) ==
  IF \E i \in 1..Len(s) : s[i] = None THEN "Cannot convert undefined to a BigInt"
  ELSE IF ~loaded THEN "this.poseidon is not a function"
  ELSE "none"

\* the error of the first of several hash calls that throws
FirstError(errors) ==
  IF \A i \in 1..Len(errors) : errors[i] = "none" THEN "none"
  ELSE errors[CHOOSE i \in 1..Len(errors) :
                /\ errors[i] # "none"
                /\ \A j \in 1..(i - 1) : errors[j] = "none"]

hash(s) == Poseidon(s)

\* generateCommitment leaving the secret out
generateCommitmentOfSpend(secret, nullifier, randomness) == hash(<<nullifier, randomness>>)

generateCommitment(secret, nullifier, randomness) == hash(<<secret, nullifier, randomness>>)

generateNullifierHash(nullifier, randomness) == hash(<<nullifier, randomness>>)

(***************************************************************************)
(* Proof objects.  A coordinate is <<format, value>>.                      *)
(***************************************************************************)
HexOne == <<"0x", 1>>
HexZero == <<"0x", 0>>

\* '0x' + crypto.randomBytes(32).toString('hex'), the k-th of a proof
RandomHex(seed, k) == <<"0x", seed * 8 + k - 1>>

\* generateMockProof with pi_b as one flat sextet
generateMockProofFlat(seed) ==
  [ pi_a |-> << RandomHex(seed, 1), RandomHex(seed, 2), HexOne >>,
    pi_b |-> << RandomHex(seed, 3), RandomHex(seed, 4), RandomHex(seed, 5),
                RandomHex(seed, 6), HexOne, HexZero >>,
    pi_c |-> << RandomHex(seed, 7), RandomHex(seed, 8), HexOne >>,
    protocol |-> "groth16",
    curve |-> "bn128" ]

generateMockProof(seed) ==
  [ pi_a |-> << RandomHex(seed, 1), RandomHex(seed, 2), HexOne >>,
    pi_b |-> << << RandomHex(seed, 3), RandomHex(seed, 4) >>,
                << RandomHex(seed, 5), RandomHex(seed, 6) >>,
                << HexOne, HexZero >> >>,
    pi_c |-> << RandomHex(seed, 7), RandomHex(seed, 8), HexOne >>,
    protocol |-> "groth16",
    curve |-> "bn128" ]

NoProof == [protocol |-> "none"]

NoError == <<"none", "none">>

NoResult ==
  [ status |-> "none", proofFrom |-> "none", proof |-> NoProof, publicSignals |-> <<>>,
    commitment |-> None, nullifier |-> None, secret |-> None, randomness |-> None,
    nullifierHash |-> None, outputCommitment |-> None, changeCommitment |-> None,
    changeSecret |-> None, changeNullifier |-> None, changeRandomness |-> None,
    error |-> NoError ]

NoLocals ==
  [ secret |-> None, nullifier |-> None, randomness |-> None,
    commitment |-> None, nullifierHash |-> None, outputCommitment |-> None,
    changeSecret |-> None, changeNullifier |-> None, changeRandomness |-> None,
    changeCommitment |-> None ]

Failure(prefix, cause) == [NoResult EXCEPT !.status = "error", !.error = <<prefix, cause>>]

NoProved == [outcome |-> "none", diagnostic |-> "none", proof |-> NoProof, publicSignals |-> <<>>]

NoSel == [reached |-> FALSE, wasm |-> FALSE, zkey |-> FALSE]

(***************************************************************************)
(* The proving backend (snarkjs with the compiled circuits).               *)
(***************************************************************************)
\* the decimal coordinates of a proof the backend returns
BackendProof(seed) ==
  [ pi_a |-> << <<"dec", seed * 8>>, <<"dec", seed * 8 + 1>>, <<"dec", 1>> >>,
    pi_b |-> << << <<"dec", seed * 8 + 2>>, <<"dec", seed * 8 + 3>> >>,
                << <<"dec", seed * 8 + 4>>, <<"dec", seed * 8 + 5>> >>,
                << <<"dec", 1>>, <<"dec", 0>> >> >>,
    pi_c |-> << <<"dec", seed * 8 + 6>>, <<"dec", seed * 8 + 7>>, <<"dec", 1>> >>,
    protocol |-> "groth16",
    curve |-> "bn128" ]

\* the witness calculator rejects a witness with a missing signal
WitnessComplete(w) == \A i \in 1..Len(w) : w[i] # None

ShieldCircuitSignals(commitment, amount, recipient) == <<commitment, amount, recipient>>

UnshieldCircuitSignals(s, n, r, cs, cn, cr, outputAmount, changeAmount, recipient) ==
  << outputAmount, changeAmount, recipient,
     Poseidon(<<n, r>>), Poseidon(<<s, n, r>>), outputAmount,
     Poseidon(<<cs, cn, cr>>), changeAmount, recipient >>

TransferCircuitSignals(s, n, r, os, on, or, cs, cn, cr, outputAmount, changeAmount, recipient) ==
  << outputAmount, changeAmount, recipient,
     Poseidon(<<n, r>>), Poseidon(<<s, n, r>>), Poseidon(<<os, on, or>>), outputAmount,
     Poseidon(<<cs, cn, cr>>), changeAmount, recipient >>

(***************************************************************************)
(* State.                                                                  *)
(***************************************************************************)
VARIABLES
  serverPc,      \* startServer: "boot", "initializing", "initialized", "listening", "exited"
  initOutcome,   \* proofGenerator.initialize(): "pending", "ok", "failed"
  poseidon,      \* this.poseidon is set
  pc,            \* the invocation: "idle", "proving", "verifying", "done"
  op,            \* its method: "none", "shield", "unshield", "transfer", "verify"
  inputs,        \* its argument
  draws,         \* the values randomFieldElement returned to it, in order
  locals,        \* its local constants
  sel,           \* the artifact files as they were at its selection check
  proveCalls,    \* how many times it called snarkjs.groth16.fullProve
  vkeySeen,      \* the verification key file as verifyProof found it
  verdict,       \* what snarkjs.groth16.verify answered
  isValid,       \* what verifyProof returned
  circuitType,   \* the circuitType argument of verifyProof
  proved,        \* how fullProve settled, and the proof and publicSignals it returned
  result,        \* what the invocation returned or threw
  log,           \* the fallback notices the invocation wrote to the console
  parked,        \* another invocation, suspended at an await while this one runs
  route,         \* the route handling a request: "none", "shield", "unshield", "transfer"
  routePc,       \* the handler: "none", "decimals", "generating", "responded"
  body,          \* req.body
  response,      \* what the handler sent
  bytes,         \* what crypto.randomBytes returned to randomFieldElement
  element,       \* the decimal string randomFieldElement returned
  noteA,         \* a note <<secret, nullifier, randomness>>
  noteB,         \* another note
  digest         \* the commitments and nullifier hashes of noteA and noteB

vars == << serverPc, initOutcome, poseidon, pc, op, inputs, draws, locals, sel,
           proveCalls, vkeySeen, verdict, isValid, circuitType, proved, result, log,
           parked, route, routePc, body, response, bytes, element, noteA, noteB,
           digest >>

server == << serverPc, initOutcome, poseidon >>

NoInputs == MkInputs({}, FALSE)

\* no invocation is suspended
NoFrame ==
  [ pc |-> "idle", op |-> "none", inputs |-> NoInputs, draws |-> <<>>,
    locals |-> NoLocals, sel |-> NoSel, proveCalls |-> 0, vkeySeen |-> "none",
    verdict |-> "none", isValid |-> "none", circuitType |-> "none",
    proved |-> NoProved, result |-> NoResult, log |-> {} ]

\* a decimal-unit amount of a request body: absent, not a number, or a number
Undefined == [k |-> "undefined", v |-> 0]
NotANumber == [k |-> "nan", v |-> 0]
Num(n) == [k |-> "num", v |-> n]

NoBody ==
  [ amount |-> Undefined, inputAmount |-> Undefined, outputAmount |-> Undefined,
    changeAmount |-> Undefined, token |-> "ETH", fields |-> NoInputs ]

NoResponse == [code |-> 0]

NoDigest ==
  [ commitmentA |-> None, commitmentB |-> None,
    nullifierHashA |-> None, nullifierHashB |-> None ]

\* the process before startServer, no request received
Boot ==
  /\ serverPc = "boot"
  /\ initOutcome = "pending"
  /\ poseidon = FALSE
  /\ pc = "idle"
  /\ op = "none"
  /\ inputs = NoInputs
  /\ draws = <<>>
  /\ locals = NoLocals
  /\ sel = NoSel
  /\ proveCalls = 0
  /\ vkeySeen = "none"
  /\ verdict = "none"
  /\ isValid = "none"
  /\ circuitType = "none"
  /\ proved = NoProved
  /\ result = NoResult
  /\ log = {}
  /\ parked = NoFrame
  /\ route = "none"
  /\ routePc = "none"
  /\ body = NoBody
  /\ response = NoResponse

Init ==
  /\ Boot
  /\ bytes = <<>>
  /\ element = <<>>
  /\ noteA = <<>>
  /\ noteB = <<>>
  /\ digest = NoDigest

pure == << bytes, element, noteA, noteB, digest >>

invocation == << pc, op, inputs, draws, locals, sel, proveCalls, vkeySeen, verdict,
                 isValid, circuitType, proved, result, log >>

http == << route, routePc, body, response >>

verification == << vkeySeen, verdict, isValid, circuitType, proved >>

(***************************************************************************)
(* server.ts                                                               *)
(***************************************************************************)
\* startServer calling app.listen without awaiting initialize()
startServerListeningFirst ==
  /\ serverPc = "boot"
  /\ serverPc' = "listening"
  /\ UNCHANGED << initOutcome, poseidon, invocation, http, parked, pure >>

\* startServer() up to `await proofGenerator.initialize()`
startServer ==
  /\ serverPc = "boot"
  /\ serverPc' = "initializing"
  /\ UNCHANGED << initOutcome, poseidon, invocation, http, parked, pure >>

\* buildPoseidon() resolves: this.poseidon is assigned
initialize ==
  /\ serverPc = "initializing"
  /\ poseidon' = TRUE
  /\ initOutcome' = "ok"
  /\ serverPc' = "initialized"
  /\ UNCHANGED << invocation, http, parked, pure >>

\* buildPoseidon() rejects: the catch of startServer calls process.exit(1)
initializeFails ==
  /\ serverPc = "initializing"
  /\ initOutcome' = "failed"
  /\ serverPc' = "exited"
  /\ UNCHANGED << poseidon, invocation, http, parked, pure >>

\* the continuation of startServer: app.listen(PORT)
appListen ==
  /\ serverPc = "initialized"
  /\ serverPc' = "listening"
  /\ UNCHANGED << initOutcome, poseidon, invocation, http, parked, pure >>

\* a request handler can run
Serving == serverPc = "listening"


(***************************************************************************)
(* proof-generator.ts                                                      *)
(***************************************************************************)
\* the calls of randomFieldElement that `a || randomFieldElement()` makes for
\* three fields, out of the three values d the source would return
DrawsMade(a, b, c, d) ==
  (IF a = None THEN <<d[1]>> ELSE <<>>) \o
  (IF b = None THEN <<d[2]>> ELSE <<>>) \o
  (IF c = None THEN <<d[3]>> ELSE <<>>)

\* the secrets of the shielded note: `inputs.x || this.randomFieldElement()`
ResolveNote(in, d) ==
  << Or(in.secret, d[1]), Or(in.nullifier, d[2]), Or(in.randomness, d[3]) >>

\* ResolveChange with the output note's secrets standing in for the draws
ResolveChangeCopying(in, d) ==
  << Or(in.changeSecret, in.outputSecret), Or(in.changeNullifier, in.outputNullifier),
     Or(in.changeRandomness, in.outputRandomness) >>

\* the secrets of the change note: `inputs.changeX || this.randomFieldElement()`
ResolveChange(in, d) ==
  << Or(in.changeSecret, d[1]), Or(in.changeNullifier, d[2]),
     Or(in.changeRandomness, d[3]) >>

\* UseMock answering from the check an earlier invocation of the service made
UseMockCached(wasmExists, zkeyExists) ==
  IF parked.sel.reached THEN ~parked.sel.wasm \/ ~parked.sel.zkey
  ELSE ~wasmExists \/ ~zkeyExists

\* UseMock asking for both files to be missing
UseMockBothMissing(wasmExists, zkeyExists) == ~wasmExists /\ ~zkeyExists

\* !fs.existsSync(wasmPath) || !fs.existsSync(zkeyPath)
UseMock(wasmExists, zkeyExists) == ~wasmExists \/ ~zkeyExists

\* ShieldMockSignals with amount and recipient exchanged
ShieldMockSignalsSwapped(commitment, in) ==
  << commitment, Or(in.recipient, 0), Or(in.amount, 0) >>

ShieldMockSignals(commitment, in) ==
  << commitment, Or(in.amount, 0), Or(in.recipient, 0) >>

\* UnshieldMockSignals echoing the caller's inputCommitment
UnshieldMockSignalsTrusting(nullifierHash, inputCommitment, changeCommitment, in) ==
  << Or(in.outputAmount, 0), Or(in.changeAmount, 0), Or(in.recipient, 0),
     nullifierHash, in.inputCommitment, Or(in.outputAmount, 0),
     changeCommitment, Or(in.changeAmount, 0), Or(in.recipient, 0) >>

UnshieldMockSignals(nullifierHash, inputCommitment, changeCommitment, in) ==
  << Or(in.outputAmount, 0), Or(in.changeAmount, 0), Or(in.recipient, 0),
     nullifierHash, inputCommitment, Or(in.outputAmount, 0),
     changeCommitment, Or(in.changeAmount, 0), Or(in.recipient, 0) >>

\* TransferMockSignals with the public outputs in the circuit's log order
\* and the echoes collapsed
TransferMockSignalsCollapsed(nullifierHash, outputCommitment, changeCommitment, in) ==
  << Or(in.outputAmount, 0), Or(in.changeAmount, 0), Or(in.recipient, 0),
     nullifierHash, in.inputCommitment, outputCommitment, changeCommitment >>

TransferMockSignals(nullifierHash, outputCommitment, changeCommitment, in) ==
  << Or(in.outputAmount, 0), Or(in.changeAmount, 0), Or(in.recipient, 0),
     nullifierHash, in.inputCommitment, outputCommitment, Or(in.outputAmount, 0),
     changeCommitment, Or(in.changeAmount, 0), Or(in.recipient, 0) >>

\* the object generateShieldProof returns on both paths
ShieldResult(from, proof, signals, l) ==
  [ NoResult EXCEPT !.status = "ok", !.proofFrom = from, !.proof = proof,
      !.publicSignals = signals, !.commitment = l.commitment,
      !.nullifier = l.nullifier, !.secret = l.secret, !.randomness = l.randomness ]

\* the object generateUnshieldProof returns on both paths
UnshieldResult(from, proof, signals, l) ==
  [ NoResult EXCEPT !.status = "ok", !.proofFrom = from, !.proof = proof,
      !.publicSignals = signals, !.commitment = l.commitment,
      !.nullifier = l.nullifier, !.secret = l.secret, !.randomness = l.randomness,
      !.nullifierHash = l.nullifierHash, !.changeCommitment = l.changeCommitment,
      !.changeSecret = l.changeSecret, !.changeNullifier = l.changeNullifier,
      !.changeRandomness = l.changeRandomness ]

\* the object generateTransferProof returns; the paths differ in nullifierHash
TransferResult(from, proof, signals, nullifierHash, l) ==
  [ NoResult EXCEPT !.status = "ok", !.proofFrom = from, !.proof = proof,
      !.publicSignals = signals, !.nullifierHash = nullifierHash,
      !.outputCommitment = l.outputCommitment,
      !.changeCommitment = l.changeCommitment,
      !.changeSecret = l.changeSecret, !.changeNullifier = l.changeNullifier,
      !.changeRandomness = l.changeRandomness ]

\* the console line written before a mock proof is built
MockNotice == "Compiled circuits not found. Using mock proof for development."

\* the console line written when verifyProof finds no verification key
SkipNotice == "Verification key not found. Skipping verification."

\* LogMockFallback writing nothing
LogMockFallbackSilent(l) == l

\* console.log of MockNotice, the statement before `return { proof: mockProof, ...`
LogMockFallback(l) == l \cup {MockNotice}

\* verifyProof's console.log of SkipNotice, inside `if (!fs.existsSync(vkeyPath))`
LogVerificationSkipped(l, vkey) == IF vkey = "absent" THEN l \cup {SkipNotice} ELSE l

\* the messages of the errors fullProve rejects with
BackendDiagnostics == {"Assert Failed", "Too many values for input signal"}

\* fullProve rejected with the given diagnostic
Rejected(diagnostic) == [NoProved EXCEPT !.outcome = "rejected", !.diagnostic = diagnostic]

\* fullProve resolved to { proof, publicSignals }
Resolved(proof, signals) ==
  [NoProved EXCEPT !.outcome = "resolved", !.proof = proof, !.publicSignals = signals]

\* ProveFailure answering a rejected fullProve with a mock proof
ProveFailureFallingBack(prefix, diagnostic) ==
  [ NoResult EXCEPT !.status = "ok", !.proofFrom = "generateMockProof",
      !.proof = generateMockProof(0) ]

\* the catch around fullProve: throw new Error(`<prefix>: ${error.message}`)
ProveFailure(prefix, diagnostic) == Failure(prefix, diagnostic)

\* the constants generateShieldProof declares before it selects a path
ShieldLocals(in, d) ==
  LET note == ResolveNote(in, d)
      secret == note[1]
      nullifier == note[2]
      randomness == note[3]
  IN [ NoLocals EXCEPT !.secret = secret, !.nullifier = nullifier,
         !.randomness = randomness,
         !.commitment = generateCommitment(secret, nullifier, randomness),
         !.nullifierHash = generateNullifierHash(nullifier, randomness) ]

\* generateShieldProof up to its return of a mock proof, its throw, or its
\* await of snarkjs.groth16.fullProve
ShieldCall(in) ==
  /\ Serving /\ pc = "idle"
  /\ \E d \in [1..3 -> RandVals],
        wasmExists \in BOOLEAN, zkeyExists \in BOOLEAN, seed \in Seeds :
       LET thrown == hashError(poseidon, ResolveNote(in, d))
           l == ShieldLocals(in, d)
       IN /\ op' = "shield"
          /\ inputs' = in
          /\ draws' = DrawsMade(in.secret, in.nullifier, in.randomness, d)
          /\ IF thrown # "none"
             THEN /\ pc' = "done"
                  /\ result' = Failure("Shield proof generation failed", thrown)
                  /\ UNCHANGED << locals, sel, proveCalls, log >>
             ELSE /\ locals' = l
                  /\ sel' = [reached |-> TRUE, wasm |-> wasmExists, zkey |-> zkeyExists]
                  /\ IF UseMock(wasmExists, zkeyExists)
                     THEN /\ pc' = "done"
                          /\ result' = ShieldResult("generateMockProof", generateMockProof(seed),
                                                    ShieldMockSignals(l.commitment, in), l)
                          /\ log' = LogMockFallback(log)
                          /\ UNCHANGED proveCalls
                     ELSE /\ pc' = "proving"
                          /\ proveCalls' = proveCalls + 1
                          /\ UNCHANGED << result, log >>
  /\ UNCHANGED << server, verification >>

\* fullProve settles in generateShieldProof
shieldProved ==
  /\ pc = "proving" /\ op = "shield"
  /\ \E rejects \in BOOLEAN, seed \in Seeds, diagnostic \in BackendDiagnostics :
       LET amount == Or(inputs.amount, 0)
           recipient == Or(inputs.recipient, 0)
           witness == << locals.commitment, amount, recipient, locals.secret,
                         locals.nullifier, locals.randomness >>
           signals == ShieldCircuitSignals(locals.commitment, amount, recipient)
       IN IF rejects \/ ~WitnessComplete(witness)
          THEN /\ proved' = Rejected(diagnostic)
               /\ result' = ProveFailure("Shield proof generation failed", diagnostic)
          ELSE /\ proved' = Resolved(BackendProof(seed), signals)
               /\ result' = ShieldResult("fullProve", BackendProof(seed), signals, locals)
  /\ pc' = "done"
  /\ UNCHANGED << server, op, inputs, draws, locals, sel, proveCalls, vkeySeen, verdict,
                  isValid, circuitType, log, http, parked, pure >>

\* the constants generateUnshieldProof declares before it selects a path
UnshieldLocals(in, d) ==
  LET change == ResolveChange(in, d)
      changeSecret == change[1]
      changeNullifier == change[2]
      changeRandomness == change[3]
  IN [ NoLocals EXCEPT !.secret = in.secret, !.nullifier = in.nullifier,
         !.randomness = in.randomness,
         !.commitment = generateCommitment(in.secret, in.nullifier, in.randomness),
         !.nullifierHash = generateNullifierHash(in.nullifier, in.randomness),
         !.changeSecret = changeSecret, !.changeNullifier = changeNullifier,
         !.changeRandomness = changeRandomness,
         !.changeCommitment =
             generateCommitment(changeSecret, changeNullifier, changeRandomness) ]

\* generateUnshieldProof up to its return of a mock proof, its throw, or its
\* await of snarkjs.groth16.fullProve
UnshieldCall(in) ==
  /\ Serving /\ pc = "idle"
  /\ \E d \in [1..3 -> RandVals],
        wasmExists \in BOOLEAN, zkeyExists \in BOOLEAN, seed \in Seeds :
       LET thrown == hashError(poseidon, << in.secret, in.nullifier, in.randomness >>)
           l == UnshieldLocals(in, d)
       IN /\ op' = "unshield"
          /\ inputs' = in
          /\ IF in.secret = None \/ in.nullifier = None \/ in.randomness = None
             THEN /\ pc' = "done"
                  /\ result' = Failure("Unshield proof generation failed",
                                       "Secret, nullifier, and randomness required for unshield")
                  /\ UNCHANGED << draws, locals, sel, proveCalls, log >>
             ELSE IF thrown # "none"
             THEN /\ pc' = "done"
                  /\ result' = Failure("Unshield proof generation failed", thrown)
                  /\ UNCHANGED << draws, locals, sel, proveCalls, log >>
             ELSE /\ draws' = DrawsMade(in.changeSecret, in.changeNullifier,
                                        in.changeRandomness, d)
                  /\ locals' = l
                  /\ sel' = [reached |-> TRUE, wasm |-> wasmExists, zkey |-> zkeyExists]
                  /\ IF UseMock(wasmExists, zkeyExists)
                     THEN /\ pc' = "done"
                          /\ result' = UnshieldResult("generateMockProof", generateMockProof(seed),
                                          UnshieldMockSignals(l.nullifierHash, l.commitment,
                                                              l.changeCommitment, in), l)
                          /\ log' = LogMockFallback(log)
                          /\ UNCHANGED proveCalls
                     ELSE /\ pc' = "proving"
                          /\ proveCalls' = proveCalls + 1
                          /\ UNCHANGED << result, log >>
  /\ UNCHANGED << server, verification >>

\* fullProve settles in generateUnshieldProof
unshieldProved ==
  /\ pc = "proving" /\ op = "unshield"
  /\ \E rejects \in BOOLEAN, seed \in Seeds, diagnostic \in BackendDiagnostics :
       LET outputAmount == Or(inputs.outputAmount, 0)
           changeAmount == Or(inputs.changeAmount, 0)
           recipient == Or(inputs.recipient, 0)
           witness == << inputs.secret, inputs.randomness, inputs.nullifier,
                         locals.changeSecret, locals.changeNullifier,
                         locals.changeRandomness, outputAmount, changeAmount, recipient >>
           signals == UnshieldCircuitSignals(inputs.secret, inputs.nullifier,
                         inputs.randomness, locals.changeSecret, locals.changeNullifier,
                         locals.changeRandomness, outputAmount, changeAmount, recipient)
       IN IF rejects \/ ~WitnessComplete(witness)
          THEN /\ proved' = Rejected(diagnostic)
               /\ result' = ProveFailure("Unshield proof generation failed", diagnostic)
          ELSE /\ proved' = Resolved(BackendProof(seed), signals)
               /\ result' = UnshieldResult("fullProve", BackendProof(seed), signals, locals)
  /\ pc' = "done"
  /\ UNCHANGED << server, op, inputs, draws, locals, sel, proveCalls, vkeySeen, verdict,
                  isValid, circuitType, log, http, parked, pure >>

\* the constants generateTransferProof declares before it selects a path
TransferLocals(in, d) ==
  LET change == ResolveChange(in, d)
      changeSecret == change[1]
      changeNullifier == change[2]
      changeRandomness == change[3]
      out == << in.outputSecret, in.outputNullifier, in.outputRandomness >>
      spent == << in.inputNullifier, in.inputRandomness >>
  IN [ NoLocals EXCEPT !.outputCommitment = hash(out),
         !.changeSecret = changeSecret, !.changeNullifier = changeNullifier,
         !.changeRandomness = changeRandomness,
         !.changeCommitment = hash(change),
         !.nullifierHash = hash(spent) ]

\* generateTransferProof up to its return of a mock proof, its throw, or its
\* await of snarkjs.groth16.fullProve
TransferCall(in) ==
  /\ Serving /\ pc = "idle"
  /\ \E d \in [1..3 -> RandVals],
        wasmExists \in BOOLEAN, zkeyExists \in BOOLEAN, seed \in Seeds :
       LET change == ResolveChange(in, d)
           out == << in.outputSecret, in.outputNullifier, in.outputRandomness >>
           spent == << in.inputNullifier, in.inputRandomness >>
           thrown == FirstError(<< hashError(poseidon, out), hashError(poseidon, change),
                                   hashError(poseidon, spent) >>)
           l == TransferLocals(in, d)
       IN /\ op' = "transfer"
          /\ inputs' = in
          /\ draws' = DrawsMade(in.changeSecret, in.changeNullifier, in.changeRandomness, d)
          /\ IF thrown # "none"
             THEN /\ pc' = "done"
                  /\ result' = Failure("Transfer proof generation failed", thrown)
                  /\ UNCHANGED << locals, sel, proveCalls, log >>
             ELSE /\ locals' = l
                  /\ sel' = [reached |-> TRUE, wasm |-> wasmExists, zkey |-> zkeyExists]
                  /\ IF UseMock(wasmExists, zkeyExists)
                     THEN /\ pc' = "done"
                          /\ result' = TransferResult("generateMockProof", generateMockProof(seed),
                                          TransferMockSignals(l.nullifierHash, l.outputCommitment,
                                                              l.changeCommitment, in),
                                          l.nullifierHash, l)
                          /\ log' = LogMockFallback(log)
                          /\ UNCHANGED proveCalls
                     ELSE /\ pc' = "proving"
                          /\ proveCalls' = proveCalls + 1
                          /\ UNCHANGED << result, log >>
  /\ UNCHANGED << server, verification >>

VkeyStates == {"absent", "readable", "unreadable"}
Verdicts == {"true", "false", "throws"}

\* verifyProofBeforeAwait treating a missing key as a failed verification
verifyProofBeforeAwaitStrict(vkey) ==
  IF vkey = "readable" THEN "pending" ELSE "false"

\* verifyProof up to `await snarkjs.groth16.verify`: the key file is absent
\* (return true), cannot be read or parsed (catch: return false), or is loaded
verifyProofBeforeAwait(vkey) ==
  IF vkey = "absent" THEN "true"
  ELSE IF vkey = "unreadable" THEN "false"
  ELSE "pending"

\* verifyProof after the await: return isValid, or the catch returns false
verifyProofAfterAwait(v) == IF v = "throws" THEN "false" ELSE v

\* fullProve settles in generateTransferProof; on success the continuation
\* calls verifyProof, which runs up to its own await
transferProved ==
  /\ pc = "proving" /\ op = "transfer"
  /\ \E rejects \in BOOLEAN, seed \in Seeds, vkey \in VkeyStates,
        diagnostic \in BackendDiagnostics :
       LET outputAmount == Or(inputs.outputAmount, 0)
           changeAmount == Or(inputs.changeAmount, 0)
           recipient == Or(inputs.recipient, 0)
           witness == << inputs.inputSecret, inputs.inputNullifier, inputs.inputRandomness,
                         inputs.outputSecret, inputs.outputNullifier, inputs.outputRandomness,
                         locals.changeSecret, locals.changeNullifier, locals.changeRandomness,
                         outputAmount, changeAmount, recipient >>
       IN IF rejects \/ ~WitnessComplete(witness)
          THEN /\ proved' = Rejected(diagnostic)
               /\ result' = ProveFailure("Transfer proof generation failed", diagnostic)
               /\ pc' = "done"
               /\ UNCHANGED << vkeySeen, verdict, isValid, circuitType, log >>
          ELSE /\ proved' = Resolved(BackendProof(seed),
                                TransferCircuitSignals(inputs.inputSecret, inputs.inputNullifier,
                                  inputs.inputRandomness, inputs.outputSecret,
                                  inputs.outputNullifier, inputs.outputRandomness,
                                  locals.changeSecret, locals.changeNullifier,
                                  locals.changeRandomness, outputAmount, changeAmount,
                                  recipient))
               /\ circuitType' = "transfer"
               /\ vkeySeen' = vkey
               /\ isValid' = verifyProofBeforeAwait(vkey)
               /\ log' = LogVerificationSkipped(log, vkey)
               /\ pc' = "verifying"
               /\ UNCHANGED << verdict, result >>
  /\ UNCHANGED << server, op, inputs, draws, locals, sel, proveCalls, http, parked, pure >>

\* TransferAfterVerify without the check of isValid
TransferAfterVerifyUnchecked(valid, p, l) ==
  TransferResult("fullProve", p.proof, p.publicSignals, p.publicSignals[1], l)

\* what generateTransferProof does with the isValid it awaited
TransferAfterVerify(valid, p, l) ==
  IF valid # "true"
  THEN Failure("Transfer proof generation failed", "Generated proof failed local verification!")
  ELSE TransferResult("fullProve", p.proof, p.publicSignals, p.publicSignals[1], l)

\* verifyProof settles in generateTransferProof
transferVerified ==
  /\ pc = "verifying" /\ op = "transfer"
  /\ \E v \in Verdicts :
       LET valid == IF isValid = "pending" THEN verifyProofAfterAwait(v) ELSE isValid
       IN /\ verdict' = IF isValid = "pending" THEN v ELSE verdict
          /\ isValid' = valid
          /\ result' = TransferAfterVerify(valid, proved, locals)
  /\ pc' = "done"
  /\ UNCHANGED << server, op, inputs, draws, locals, sel, proveCalls, vkeySeen,
                  circuitType, proved, log, http, parked, pure >>

\* verifyProof called on its own, up to its await or its early return
verifyProof ==
  /\ Serving /\ pc = "idle"
  /\ \E kind \in Ops, vkey \in VkeyStates :
       /\ op' = "verify"
       /\ circuitType' = kind
       /\ vkeySeen' = vkey
       /\ isValid' = verifyProofBeforeAwait(vkey)
       /\ pc' = IF verifyProofBeforeAwait(vkey) = "pending" THEN "verifying" ELSE "done"
       /\ result' = IF verifyProofBeforeAwait(vkey) = "pending" THEN NoResult
                    ELSE [NoResult EXCEPT !.status = "ok"]
       /\ log' = LogVerificationSkipped(log, vkey)
  /\ UNCHANGED << server, inputs, draws, locals, sel, proveCalls, verdict, proved,
                  http, parked, pure >>

\* snarkjs.groth16.verify settles in a verifyProof called on its own
verifyProofSettles ==
  /\ pc = "verifying" /\ op = "verify"
  /\ \E v \in Verdicts :
       /\ verdict' = v
       /\ isValid' = verifyProofAfterAwait(v)
  /\ result' = [NoResult EXCEPT !.status = "ok"]
  /\ pc' = "done"
  /\ UNCHANGED << server, op, inputs, draws, locals, sel, proveCalls, vkeySeen,
                  circuitType, proved, log, http, parked, pure >>

\* a caller of the service invokes generateShieldProof
generateShieldProof ==
  /\ Serving /\ pc = "idle" /\ route = "none"
  /\ \E in \in Requests(ShieldFields, FreshFields) : ShieldCall(in)
  /\ UNCHANGED << http, parked, pure >>

\* a caller of the service invokes generateUnshieldProof
generateUnshieldProof ==
  /\ Serving /\ pc = "idle" /\ route = "none"
  /\ \E in \in Requests(UnshieldFields, ChangeFields) : UnshieldCall(in)
  /\ UNCHANGED << http, parked, pure >>

\* a caller of the service invokes generateTransferProof
generateTransferProof ==
  /\ Serving /\ pc = "idle" /\ route = "none"
  /\ \E in \in Requests(TransferFields, ChangeFields) : TransferCall(in)
  /\ UNCHANGED << http, parked, pure >>

\* the caller has its answer, or the handler has sent its response; the
\* service is ready for the next invocation
Respond ==
  /\ \/ pc = "done" /\ route = "none"
     \/ routePc = "responded"
  /\ pc' = "idle"
  /\ op' = "none"
  /\ inputs' = NoInputs
  /\ draws' = <<>>
  /\ locals' = NoLocals
  /\ sel' = NoSel
  /\ proveCalls' = 0
  /\ vkeySeen' = "none"
  /\ verdict' = "none"
  /\ isValid' = "none"
  /\ circuitType' = "none"
  /\ proved' = NoProved
  /\ result' = NoResult
  /\ log' = {}
  /\ route' = "none"
  /\ routePc' = "none"
  /\ body' = NoBody
  /\ response' = NoResponse
  /\ UNCHANGED << server, parked, pure >>

(***************************************************************************)
(* routes/privacy.ts                                                       *)
(***************************************************************************)
\* the amounts a request body carries
Amounts == {Undefined, NotANumber} \cup {Num(n) : n \in 0..MaxAmount}

\* the other fields of a body: all of them, or all but one
BodyFields(fields) ==
  { MkInputs(fields \ A, FALSE) : A \in {B \in SUBSET fields : Cardinality(B) <= 1} }

ShieldBodies ==
  { [NoBody EXCEPT !.amount = a, !.token = t, !.fields = f] :
      a \in Amounts, t \in {"ETH", "ERC20"}, f \in BodyFields({"recipient"}) }

ChangeBodies(fields) ==
  { [NoBody EXCEPT !.inputAmount = i, !.outputAmount = o, !.changeAmount = c,
                   !.token = t, !.fields = f] :
      i \in Amounts, o \in Amounts, c \in Amounts, t \in {"ETH", "ERC20"},
      f \in BodyFields(fields) }

UnshieldBodies ==
  ChangeBodies({"recipient", "secret", "nullifier", "randomness", "inputCommitment"}
               \cup ChangeFields)

TransferBodies ==
  ChangeBodies({"recipient", "inputCommitment", "inputSecret", "inputNullifier",
                "inputRandomness", "outputSecret", "outputNullifier", "outputRandomness"}
               \cup ChangeFields)

\* !amount || parseFloat(amount) <= 0
InvalidAmount(a) == a.k = "undefined" \/ (a.k = "num" /\ a.v <= 0)

\* changeAmount !== undefined ? changeAmount
\*   : (parseFloat(inputAmount) - parseFloat(outputAmount)).toString()
calculatedChange(b) ==
  IF b.changeAmount # Undefined THEN b.changeAmount
  ELSE IF b.inputAmount.k = "num" /\ b.outputAmount.k = "num"
       THEN Num(b.inputAmount.v - b.outputAmount.v)
       ELSE NotANumber

\* parseFloat(calculatedChange) < 0
NegativeChange(c) == c.k = "num" /\ c.v < 0

\* token && token !== 'ETH' && tokenAddress
IsERC20(b) == b.token = "ERC20"

\* "Native ETH - use 18 decimals"
EtherDecimals == 18

\* what decimals() of a token contract answers
TokenDecimals == {6, EtherDecimals}

\* ethers.parseUnits throws on a string that is not a decimal number
ParseUnitsThrows(a) == a.k # "num"

\* ethers.parseUnits(value, decimals).toString(): the numeral of value
\* followed by `decimals` zeros, held as the pair packed into one integer
parseUnits(a, decimals) == IF a.v = 0 THEN 0 ELSE a.v * 100 + decimals

ParseUnitsMessage == "invalid FixedNumber string value"

\* ErrorResponse carrying a field of the request's note as well
ErrorResponseLeaking(code, error) ==
  [ code |-> code, success |-> FALSE, error |-> error, secret |-> FieldIndex("secret") ]

\* res.status(code).json({ success: false, error })
ErrorResponse(code, error) == [ code |-> code, success |-> FALSE, error |-> error ]

\* SuccessResponse without the proof
SuccessResponseProofless(rt, b, r) ==
  [ code |-> 200, success |-> TRUE, publicSignals |-> r.publicSignals ]

\* res.json({ success: true, ... }) of the three handlers
SuccessResponse(rt, b, r) ==
  IF rt = "shield"
  THEN [ code |-> 200, success |-> TRUE, commitment |-> r.commitment,
         nullifier |-> r.nullifier, secret |-> r.secret, randomness |-> r.randomness,
         proof |-> r.proof, publicSignals |-> r.publicSignals ]
  ELSE IF rt = "unshield"
  THEN [ code |-> 200, success |-> TRUE, proof |-> r.proof,
         publicSignals |-> r.publicSignals, nullifierHash |-> r.nullifierHash,
         changeCommitment |-> r.changeCommitment, changeSecret |-> r.changeSecret,
         changeNullifier |-> r.changeNullifier, changeRandomness |-> r.changeRandomness,
         changeAmount |-> calculatedChange(b) ]
  ELSE [ code |-> 200, success |-> TRUE, proof |-> r.proof,
         publicSignals |-> r.publicSignals, nullifierHash |-> r.nullifierHash,
         outputCommitment |-> r.outputCommitment,
         changeCommitment |-> r.changeCommitment,
         outputSecret |-> b.fields.outputSecret,
         outputNullifier |-> b.fields.outputNullifier,
         outputRandomness |-> b.fields.outputRandomness,
         changeSecret |-> r.changeSecret, changeNullifier |-> r.changeNullifier,
         changeRandomness |-> r.changeRandomness, changeAmount |-> calculatedChange(b) ]

\* the handler answers without calling the generator
Reject(code, error) ==
  /\ response' = ErrorResponse(code, error)
  /\ routePc' = "responded"
  /\ UNCHANGED << server, invocation >>

\* the first check of a handler that rejects the body b, or "none"
Validate(rt, b) ==
  IF rt = "shield"
  THEN (IF InvalidAmount(b.amount) THEN "Invalid amount" ELSE "none")
  ELSE IF InvalidAmount(b.inputAmount) THEN "Invalid input amount"
  ELSE IF InvalidAmount(b.outputAmount) THEN "Invalid output amount"
  ELSE IF NegativeChange(calculatedChange(b))
       THEN "Change amount cannot be negative (output > input)"
  ELSE IF rt = "unshield"
  THEN (IF b.fields.secret = None \/ b.fields.nullifier = None \/ b.fields.randomness = None
        THEN "Missing required proof inputs (secret, nullifier, randomness)"
        ELSE "none")
  ELSE IF b.fields.inputSecret = None \/ b.fields.inputNullifier = None
          \/ b.fields.inputRandomness = None
       THEN "Missing input commitment details"
  ELSE IF b.fields.outputSecret = None \/ b.fields.outputNullifier = None
          \/ b.fields.outputRandomness = None
       THEN "Missing output commitment details"
  ELSE "none"

\* the object a handler passes to the generator
GeneratorInputs(rt, b, decimals) ==
  IF rt = "shield"
  THEN [ NoInputs EXCEPT !.amount = parseUnits(b.amount, decimals),
                         !.recipient = Or(b.fields.recipient, 0) ]
  ELSE [ b.fields EXCEPT !.inputAmount = parseUnits(b.inputAmount, decimals),
                         !.outputAmount = parseUnits(b.outputAmount, decimals),
                         !.changeAmount = parseUnits(calculatedChange(b), decimals) ]

\* the amounts of b that the handler converts
Converted(rt, b) ==
  IF rt = "shield" THEN {b.amount}
  ELSE {b.inputAmount, b.outputAmount, calculatedChange(b)}

\* the conversion to the smallest unit and the call of the generator; a
\* conversion that throws is answered by the enclosing catch
ConvertAndCall(rt, b, decimals, code, prefix) ==
  IF \E a \in Converted(rt, b) : ParseUnitsThrows(a)
  THEN Reject(code, << prefix, ParseUnitsMessage >>)
  ELSE /\ routePc' = "generating"
       /\ UNCHANGED response
       /\ IF rt = "shield" THEN ShieldCall(GeneratorInputs(rt, b, decimals))
          ELSE IF rt = "unshield" THEN UnshieldCall(GeneratorInputs(rt, b, decimals))
          ELSE TransferCall(GeneratorInputs(rt, b, decimals))

\* a handler up to its first await or its response
Handle(rt, b) ==
  /\ route' = rt
  /\ body' = b
  /\ IF Validate(rt, b) # "none" THEN Reject(400, << "none", Validate(rt, b) >>)
     ELSE IF IsERC20(b)
     THEN /\ routePc' = "decimals"
          /\ UNCHANGED << response, server, invocation >>
     ELSE ConvertAndCall(rt, b, EtherDecimals, 500, "none")
  /\ UNCHANGED << parked, pure >>

\* router.post('/shield')
postShield ==
  /\ Serving /\ pc = "idle" /\ route = "none"
  /\ \E b \in ShieldBodies : Handle("shield", b)

\* router.post('/unshield')
postUnshield ==
  /\ Serving /\ pc = "idle" /\ route = "none"
  /\ \E b \in UnshieldBodies : Handle("unshield", b)

\* router.post('/transfer')
postTransfer ==
  /\ Serving /\ pc = "idle" /\ route = "none"
  /\ \E b \in TransferBodies : Handle("transfer", b)

\* tokenContract.decimals() settles
decimalsSettles ==
  /\ routePc = "decimals"
  /\ \E fails \in BOOLEAN, decimals \in TokenDecimals :
       IF fails THEN Reject(400, << "Failed to query token decimals", "call revert exception" >>)
       ELSE ConvertAndCall(route, body, decimals, 400, "Failed to query token decimals")
  /\ UNCHANGED << route, body, parked, pure >>

\* the generator's promise settles in the handler: res.json or the catch
sendResponse ==
  /\ routePc = "generating" /\ pc = "done"
  /\ response' = IF result.status = "ok" THEN SuccessResponse(route, body, result)
                 ELSE ErrorResponse(500, result.error)
  /\ routePc' = "responded"
  /\ UNCHANGED << server, invocation, route, body, parked, pure >>

RouteNext ==
  \/ startServer
  \/ initialize
  \/ initializeFails
  \/ appListen
  \/ postShield
  \/ postUnshield
  \/ postTransfer
  \/ decimalsSettles
  \/ shieldProved
  \/ unshieldProved
  \/ transferProved
  \/ transferVerified
  \/ sendResponse
  \/ Respond

RouteSpec == Init /\ [][RouteNext]_vars

Next ==
  \/ startServer
  \/ initialize
  \/ initializeFails
  \/ appListen
  \/ generateShieldProof
  \/ shieldProved
  \/ generateUnshieldProof
  \/ unshieldProved
  \/ generateTransferProof
  \/ transferProved
  \/ transferVerified
  \/ verifyProof
  \/ verifyProofSettles
  \/ Respond

Spec == Init /\ [][Next]_vars

(***************************************************************************)
(* Two invocations in flight.  Node runs one of them at a time, from one   *)
(* await to the next; `parked` is the one that is not running.             *)
(***************************************************************************)
\* the running invocation: the constants and parameters of the method call
Frame ==
  [ pc |-> pc, op |-> op, inputs |-> inputs, draws |-> draws, locals |-> locals,
    sel |-> sel, proveCalls |-> proveCalls, vkeySeen |-> vkeySeen,
    verdict |-> verdict, isValid |-> isValid, circuitType |-> circuitType,
    proved |-> proved, result |-> result, log |-> log ]

\* AwaitPoints with a fullProve that does not give the thread back
AwaitPointsBlockingProve == {"verifying"}

\* where a method has handed the thread back: `await snarkjs.groth16.fullProve`
\* and `await this.verifyProof` / `await snarkjs.groth16.verify`
AwaitPoints == {"proving", "verifying"}

\* Resumed with the constants of the call kept on the service instance
ResumedSharingLocals(saved, running) ==
  IF saved.pc = "idle" THEN saved ELSE [saved EXCEPT !.locals = running.locals]

\* what a call finds when it is resumed: its own constants and parameters
Resumed(saved, running) == saved

\* the requests of the concurrent callers: every field given, each with its
\* own value, or all with one value and the field `drawn` left to the service
ConcRequests(fields, drawn) ==
  { MkInputs(fields, FALSE), MkInputs(fields \ {drawn}, TRUE) }

concurrentShield ==
  /\ Serving /\ pc = "idle" /\ route = "none"
  /\ \E in \in ConcRequests(ShieldFields, "nullifier") : ShieldCall(in)
  /\ UNCHANGED << http, parked, pure >>

concurrentUnshield ==
  /\ Serving /\ pc = "idle" /\ route = "none"
  /\ \E in \in ConcRequests(UnshieldFields, "changeSecret") : UnshieldCall(in)
  /\ UNCHANGED << http, parked, pure >>

concurrentTransfer ==
  /\ Serving /\ pc = "idle" /\ route = "none"
  /\ \E in \in ConcRequests(TransferFields, "changeRandomness") : TransferCall(in)
  /\ UNCHANGED << http, parked, pure >>

\* the event loop turns from the running invocation, which is at an await
\* or has settled, to the other one
Switch ==
  /\ Serving /\ route = "none"
  /\ pc \in AwaitPoints \cup {"done", "idle"}
  /\ ~(pc = "idle" /\ parked = NoFrame)
  /\ parked' = Frame
  /\ pc' = Resumed(parked, Frame).pc
  /\ op' = Resumed(parked, Frame).op
  /\ inputs' = Resumed(parked, Frame).inputs
  /\ draws' = Resumed(parked, Frame).draws
  /\ locals' = Resumed(parked, Frame).locals
  /\ sel' = Resumed(parked, Frame).sel
  /\ proveCalls' = Resumed(parked, Frame).proveCalls
  /\ vkeySeen' = Resumed(parked, Frame).vkeySeen
  /\ verdict' = Resumed(parked, Frame).verdict
  /\ isValid' = Resumed(parked, Frame).isValid
  /\ circuitType' = Resumed(parked, Frame).circuitType
  /\ proved' = Resumed(parked, Frame).proved
  /\ result' = Resumed(parked, Frame).result
  /\ log' = Resumed(parked, Frame).log
  /\ UNCHANGED << server, http, pure >>

ConcNext ==
  \/ startServer
  \/ initialize
  \/ initializeFails
  \/ appListen
  \/ concurrentShield
  \/ shieldProved
  \/ concurrentUnshield
  \/ unshieldProved
  \/ concurrentTransfer
  \/ transferProved
  \/ transferVerified
  \/ verifyProof
  \/ verifyProofSettles
  \/ Switch
  \/ Respond

ConcSpec == Init /\ [][ConcNext]_vars

(***************************************************************************)
(* randomFieldElement, on its own.  A Buffer is the sequence of its bytes, *)
(* a string of digits the sequence of its digits, and a BigInt its         *)
(* magnitude in base 256, most significant limb first, without leading     *)
(* zeros.                                                                  *)
(***************************************************************************)
\* the argument of crypto.randomBytes in randomFieldElement
DrawBytes == 31

\* the byte values the draws are made of
ByteSamples == {0, 1, 128, 254, 255}

\* crypto.randomBytes(n): the first MaxVaried bytes vary freely over
\* ByteSamples and the other bytes are one and the same sample
RandomBytes(n) ==
  { [i \in 1..n |-> IF i <= MaxVaried THEN p[i] ELSE f] :
      p \in [1..MaxVaried -> ByteSamples], f \in ByteSamples }

\* bytes.toString('hex'): two hexadecimal digits for each byte
toStringHex(b) ==
  [ i \in 1..(2 * Len(b)) |->
      IF i % 2 = 1 THEN b[(i + 1) \div 2] \div 16 ELSE b[i \div 2] % 16 ]

RECURSIVE Normalize(_)
\* a magnitude without its leading zero limbs
Normalize(m) == IF m = <<>> \/ m[1] # 0 THEN m ELSE Normalize(Tail(m))

\* BigInt('0x' + hex)
BigIntOfHex(h) == Normalize([i \in 1..(Len(h) \div 2) |-> h[2 * i - 1] * 16 + h[2 * i]])

\* the decimal digits a step of the conversions handles at once
ChunkDigits == 6

\* 10^1 .. 10^ChunkDigits
PowersOfTen == << 10, 100, 1000, 10000, 100000, 1000000 >>

\* long division of a magnitude by 10^ChunkDigits: << quotient, remainder >>
DivChunk(m) ==
  LET by == PowersOfTen[ChunkDigits]
      rem[i \in 0..Len(m)] == IF i = 0 THEN 0 ELSE (rem[i - 1] * 256 + m[i]) % by
  IN << Normalize([i \in 1..Len(m) |-> (rem[i - 1] * 256 + m[i]) \div by]), rem[Len(m)] >>

\* the ChunkDigits digits of a remainder, zeros included
Padded(r) ==
  [ i \in 1..ChunkDigits |->
      IF i = ChunkDigits THEN r % 10 ELSE (r \div PowersOfTen[ChunkDigits - i]) % 10 ]

RECURSIVE DecimalDigits(_, _)
\* the decimal digits of a magnitude, in front of the digits acc
DecimalDigits(m, acc) ==
  IF m = <<>> THEN acc
  ELSE CHOOSE digits \in { DecimalDigits(qr[1], Padded(qr[2]) \o acc) : qr \in {DivChunk(m)} } :
         TRUE

\* BigInt.prototype.toString()
BigIntToString(m) == IF m = <<>> THEN << 0 >> ELSE Normalize(DecimalDigits(m, <<>>))

\* randomFieldElement reading as many bytes as the field is wide
DrawnBytesFieldWide == RandomBytes(DrawBytes + 1)

\* const bytes = crypto.randomBytes(31)
DrawnBytes == RandomBytes(DrawBytes)

\* return BigInt('0x' + bytes.toString('hex')).toString()
randomFieldElement(b) == BigIntToString(BigIntOfHex(toStringHex(b)))

\* a call of randomFieldElement
drawFieldElement ==
  /\ bytes = <<>>
  /\ \E b \in DrawnBytes :
       /\ bytes' = b
       /\ element' = randomFieldElement(b)
       /\ UNCHANGED << server, invocation, http, parked, noteA, noteB, digest >>

DrawSpec == Init /\ [][drawFieldElement]_vars

(***************************************************************************)
(* generateCommitment and generateNullifierHash, on their own.             *)
(***************************************************************************)
\* the notes hashed: every secret, nullifier and randomness a draw can give
Notes == [1..3 -> RandVals]

HashInit ==
  /\ Boot
  /\ bytes = <<>>
  /\ element = <<>>
  /\ noteA \in Notes
  /\ noteB \in Notes
  /\ digest = NoDigest

\* both notes are committed to and their nullifier hashes taken
hashNotes ==
  /\ digest = NoDigest
  /\ digest' =
       [ commitmentA |-> generateCommitment(noteA[1], noteA[2], noteA[3]),
         commitmentB |-> generateCommitment(noteB[1], noteB[2], noteB[3]),
         nullifierHashA |-> generateNullifierHash(noteA[2], noteA[3]),
         nullifierHashB |-> generateNullifierHash(noteB[2], noteB[3]) ]
  /\ UNCHANGED << server, invocation, http, parked, bytes, element, noteA, noteB >>

HashSpec == HashInit /\ [][hashNotes]_vars

(***************************************************************************)
(* Properties.                                                             *)
(***************************************************************************)
Returned(o) == op = o /\ pc = "done" /\ result.status = "ok"

MockMode == sel.reached /\ (~sel.wasm \/ ~sel.zkey)

\* C1: a shield invocation that returns, returns publicSignals of exactly
\* [commitment, amount, recipient] for the amount and recipient it was given,
\* and a commitment that is the hash of the secret, nullifier and randomness
\* of the same result; a secret the caller supplied is the one returned and
\* one it did not supply is the value drawn.
C1_ShieldSignalsAndCommitment ==
  Returned("shield") /\ inputs.amount # None /\ inputs.recipient # None =>
    /\ result.publicSignals = << result.commitment, inputs.amount, inputs.recipient >>
    /\ result.commitment = Poseidon(<< result.secret, result.nullifier, result.randomness >>)
    /\ result.secret # None /\ result.nullifier # None /\ result.randomness # None
    /\ inputs.secret # None => result.secret = inputs.secret
    /\ inputs.nullifier # None => result.nullifier = inputs.nullifier
    /\ inputs.randomness # None => result.randomness = inputs.randomness
    /\ (inputs.secret = None /\ inputs.nullifier = None /\ inputs.randomness = None) =>
         << result.secret, result.nullifier, result.randomness >> = draws

C1_Witness ==
  /\ Returned("shield") /\ inputs.amount # None /\ inputs.recipient # None
  /\ inputs.amount # inputs.recipient
  /\ inputs.secret = None /\ Len(draws) = 3
  /\ result.proofFrom = "generateMockProof"

\* C2: an unshield invocation that returns in mock mode returns the nine
\* signals [outputAmount, changeAmount, recipient, nullifierHash,
\* inputCommitment, outputAmount, changeCommitment, changeAmount, recipient]:
\* the amounts and the recipient are the caller's, the three echoes repeat
\* the first three signals, the nullifier hash and the input commitment are
\* hashed from the secrets supplied, and the change commitment from the
\* change secrets returned.
C2_UnshieldMockSignals ==
  Returned("unshield") /\ MockMode =>
    LET ps == result.publicSignals
    IN /\ Len(ps) = 9
       /\ inputs.outputAmount # None => ps[1] = inputs.outputAmount
       /\ inputs.changeAmount # None => ps[2] = inputs.changeAmount
       /\ inputs.recipient # None => ps[3] = inputs.recipient
       /\ ps[4] = Poseidon(<< inputs.nullifier, inputs.randomness >>)
       /\ ps[5] = Poseidon(<< inputs.secret, inputs.nullifier, inputs.randomness >>)
       /\ ps[6] = ps[1]
       /\ ps[7] = Poseidon(<< result.changeSecret, result.changeNullifier,
                              result.changeRandomness >>)
       /\ ps[8] = ps[2]
       /\ ps[9] = ps[3]

C2_Witness ==
  /\ Returned("unshield") /\ MockMode
  /\ inputs.inputCommitment # None
  /\ inputs.outputAmount # None /\ inputs.changeAmount # None /\ inputs.recipient # None
  /\ inputs.outputAmount # inputs.changeAmount
  /\ inputs.changeSecret = None

\* C3: a transfer invocation that returns in mock mode returns ten signals:
\* the caller's outputAmount, changeAmount and recipient first, the nullifier
\* hash, output commitment and change commitment of the same result at
\* indices 3, 5 and 7, and at indices 6, 8 and 9 the repetition of indices
\* 0, 1 and 2.
C3_TransferMockSignals ==
  Returned("transfer") /\ MockMode =>
    LET ps == result.publicSignals
    IN /\ Len(ps) = 10
       /\ inputs.outputAmount # None => ps[1] = inputs.outputAmount
       /\ inputs.changeAmount # None => ps[2] = inputs.changeAmount
       /\ inputs.recipient # None => ps[3] = inputs.recipient
       /\ ps[4] = result.nullifierHash
       /\ ps[6] = result.outputCommitment
       /\ ps[7] = ps[1]
       /\ ps[8] = result.changeCommitment
       /\ ps[9] = ps[2]
       /\ ps[10] = ps[3]
       /\ {result.nullifierHash, result.outputCommitment, result.changeCommitment}
            \cap {None} = {}

C3_Witness ==
  /\ Returned("transfer") /\ MockMode
  /\ inputs.outputAmount # None /\ inputs.changeAmount # None /\ inputs.recipient # None
  /\ inputs.outputAmount # inputs.changeAmount
  /\ inputs.changeAmount # inputs.recipient

\* C4: a transfer invocation that returns in mock mode returns
\* nullifierHash = H(inputNullifier, inputRandomness), outputCommitment =
\* H(outputSecret, outputNullifier, outputRandomness) and changeCommitment =
\* H of the change secrets of the same result; when the caller supplied no
\* change secret, the three returned are the three values drawn in this
\* invocation, in the order drawn.
C4_TransferMockHashes ==
  Returned("transfer") /\ MockMode =>
    /\ result.nullifierHash = Poseidon(<< inputs.inputNullifier, inputs.inputRandomness >>)
    /\ result.outputCommitment =
         Poseidon(<< inputs.outputSecret, inputs.outputNullifier, inputs.outputRandomness >>)
    /\ result.changeCommitment =
         Poseidon(<< result.changeSecret, result.changeNullifier, result.changeRandomness >>)
    /\ (inputs.changeSecret = None /\ inputs.changeNullifier = None
          /\ inputs.changeRandomness = None) =>
         << result.changeSecret, result.changeNullifier, result.changeRandomness >> = draws

C4_Witness ==
  /\ Returned("transfer") /\ MockMode
  /\ inputs.changeSecret = None /\ inputs.changeNullifier = None
  /\ inputs.changeRandomness = None
  /\ inputs.inputSecret = None
  /\ result.changeSecret # inputs.outputSecret
  /\ result.changeSecret # result.changeNullifier

SpendSecretAbsent ==
  \/ op = "unshield" /\ (inputs.secret = None \/ inputs.nullifier = None
                           \/ inputs.randomness = None)
  \/ op = "transfer" /\ (inputs.inputSecret = None \/ inputs.inputNullifier = None
                           \/ inputs.inputRandomness = None)

MissingWitnessMessage == "Secret, nullifier, and randomness required for unshield"

\* C5: an unshield or transfer invocation in which a secret, nullifier or
\* randomness of the spent note is absent ends in an error and returns no
\* proof, in mock mode and in real mode; a shield invocation never ends in
\* the missing-witness error.
C5_MissingWitnessFails ==
  /\ (pc = "done" /\ SpendSecretAbsent) =>
        result.status = "error" /\ result.proof = NoProof
  /\ (pc = "done" /\ op = "shield") => result.error[2] # MissingWitnessMessage

IsMockProof(p) == \E seed \in Seeds : p = generateMockProof(seed)

\* C6: an invocation of shield, unshield or transfer that made its selection
\* check returns a mock proof exactly when the wasm file or the zkey file was
\* absent at that check; when both were present it called fullProve (once)
\* and whatever it returns is not a mock proof.
C6_MockIffArtifactAbsent ==
  /\ (op \in Ops /\ sel.reached) =>
        /\ (~sel.wasm \/ ~sel.zkey) =>
              /\ Returned(op) /\ IsMockProof(result.proof)
              /\ result.proofFrom = "generateMockProof" /\ proveCalls = 0
        /\ (sel.wasm /\ sel.zkey) =>
              /\ proveCalls = 1
              /\ ~IsMockProof(result.proof) /\ result.proofFrom # "generateMockProof"
  /\ (op \in Ops /\ IsMockProof(result.proof)) => sel.reached /\ (~sel.wasm \/ ~sel.zkey)

C6_Witness ==
  /\ Returned("unshield") /\ sel.reached /\ sel.wasm /\ sel.zkey
  /\ result.proofFrom = "fullProve"

\* C7: a transfer invocation returns a proof of the backend only after
\* verifyProof was called on that proof and returned true; when verifyProof
\* returns false the invocation ends in the error "Generated proof failed
\* local verification!" and returns no proof.
C7_TransferSelfVerifies ==
  /\ (Returned("transfer") /\ result.proofFrom = "fullProve") =>
        /\ vkeySeen # "none" /\ circuitType = "transfer"
        /\ isValid = "true"
        /\ result.proof = proved.proof /\ result.publicSignals = proved.publicSignals
  /\ (op = "transfer" /\ pc = "done" /\ isValid = "false") =>
        /\ result.status = "error" /\ result.proof = NoProof
        /\ result.publicSignals = <<>>
        /\ result.error = << "Transfer proof generation failed",
                             "Generated proof failed local verification!" >>

C7_Witness ==
  /\ op = "transfer" /\ pc = "done" /\ vkeySeen = "readable" /\ verdict = "false"
  /\ result.status = "error"

VerifyReturned == op \in {"verify", "transfer"} /\ isValid \in {"true", "false"}

\* C8: verifyProof returns true whenever the verification key file is
\* absent; when the key was read and the backend's verify answered a boolean,
\* verifyProof returns that boolean; an invalid proof gives false as a normal
\* return value, not an exception.
C8_VerifyProofResult ==
  VerifyReturned =>
    /\ vkeySeen = "absent" => isValid = "true" /\ verdict = "none"
    /\ (vkeySeen = "readable" /\ verdict \in {"true", "false"}) => isValid = verdict
    /\ (op = "verify" /\ pc = "done") => result.status = "ok"

C8_Witness ==
  /\ op = "verify" /\ pc = "done" /\ vkeySeen = "readable" /\ verdict = "false"
  /\ isValid = "false" /\ result.status = "ok"

\* C9: a verifyProof whose verification key file exists but cannot be read
\* or parsed ends in a fault, not in a boolean.
C9_KeyFailureIsFault ==
  (op = "verify" /\ pc = "done" /\ vkeySeen = "unreadable") =>
     result.status = "error" /\ isValid \notin {"true", "false"}

\* C10: the server listens only once initialize() has completed and set the
\* hash instance, so every invocation runs with the instance set and none
\* fails on a call of the unset this.poseidon; when initialize() fails the
\* process has exited, and an exited process stays exited.
C10_ListenAfterInitialize ==
  /\ [](Serving => poseidon /\ initOutcome = "ok")
  /\ [](pc # "idle" => poseidon)
  /\ [](result.error[2] # "this.poseidon is not a function")
  /\ [](initOutcome = "failed" => serverPc = "exited")
  /\ [][serverPc = "exited" => serverPc' = "exited"]_vars

C10_Witness ==
  /\ Serving /\ Returned("shield") /\ poseidon
  /\ result.commitment = Poseidon(<< result.secret, result.nullifier, result.randomness >>)


NoNoteMaterial(r) ==
  /\ r.proof = NoProof /\ r.publicSignals = <<>> /\ r.proofFrom = "none"
  /\ r.commitment = None /\ r.nullifier = None /\ r.secret = None
  /\ r.randomness = None /\ r.nullifierHash = None /\ r.outputCommitment = None
  /\ r.changeCommitment = None /\ r.changeSecret = None
  /\ r.changeNullifier = None /\ r.changeRandomness = None

ErrorPrefix(o) ==
  IF o = "shield" THEN "Shield proof generation failed"
  ELSE IF o = "unshield" THEN "Unshield proof generation failed"
  ELSE "Transfer proof generation failed"

\* C12: an invocation whose fullProve was rejected has thrown an error made of
\* the operation's prefix and the diagnostic the backend rejected with, has
\* returned no proof, public signal or note field, and has called fullProve
\* exactly once; no invocation calls fullProve more than once.
C12_ProveFailureAborts ==
  /\ proveCalls <= 1
  /\ proved.outcome = "rejected" =>
       /\ pc = "done"
       /\ result.status = "error"
       /\ result.error = << ErrorPrefix(op), proved.diagnostic >>
       /\ proved.diagnostic \in BackendDiagnostics
       /\ NoNoteMaterial(result)
       /\ proveCalls = 1

C12_Witness ==
  /\ op = "transfer" /\ proved.outcome = "rejected"
  /\ result.error = << "Transfer proof generation failed", "Assert Failed" >>

IsCoordinate(c) == Len(c) = 2 /\ c[1] = "0x"

IsPoint(pt) == Len(pt) = 3 /\ IsCoordinate(pt[1]) /\ IsCoordinate(pt[2]) /\ pt[3] = HexOne

IsPairedPoint(pt) ==
  /\ Len(pt) = 3
  /\ \A i \in 1..3 : Len(pt[i]) = 2 /\ IsCoordinate(pt[i][1]) /\ IsCoordinate(pt[i][2])
  /\ pt[3] = << HexOne, HexZero >>

MockShape(p) ==
  /\ p.protocol = "groth16" /\ p.curve = "bn128"
  /\ IsPoint(p.pi_a) /\ IsPoint(p.pi_c) /\ IsPairedPoint(p.pi_b)

C15_FallbacksAreLogged ==
  /\ (Returned(op) /\ result.proofFrom = "generateMockProof") => MockNotice \in log
  /\ MockNotice \in log => MockMode /\ proveCalls = 0 /\ proved.outcome = "none"
  /\ vkeySeen = "absent" => SkipNotice \in log /\ isValid = "true"
  /\ SkipNotice \in log => vkeySeen = "absent" /\ verdict = "none"

C15_Witness ==
  /\ Returned("unshield") /\ result.proofFrom = "generateMockProof"
  /\ log = {MockNotice}

\* the order of the scalar field of BN254 (alt_bn128), in decimal digits:
\* 21888242871839275222246405745257275088548364400416034343698204186575808495617
FieldOrder ==
  << 2, 1, 8, 8, 8, 2, 4, 2, 8, 7, 1, 8, 3, 9, 2, 7, 5, 2, 2, 2, 2, 4,
     6, 4, 0, 5, 7, 4, 5, 2, 5, 7, 2, 7, 5, 0, 8, 8, 5, 4, 8, 3, 6, 4,
     4, 0, 0, 4, 1, 6, 0, 3, 4, 3, 4, 3, 6, 9, 8, 2, 0, 4, 1, 8, 6, 5,
     7, 5, 8, 0, 8, 4, 9, 5, 6, 1, 7 >>

\* a < b for decimal strings without leading zeros
DecimalLess(a, b) ==
  \/ Len(a) < Len(b)
  \/ /\ Len(a) = Len(b)
     /\ \E i \in 1..Len(a) : a[i] < b[i] /\ \A j \in 1..(i - 1) : a[j] = b[j]

\* the magnitude m * by + d, for by and d up to 10^ChunkDigits
TimesPlus(m, by, d) ==
  LET n == Len(m)
      \* carry[i]: what limb i hands to limb i - 1
      carry[i \in 1..(n + 1)] == IF i = n + 1 THEN d ELSE (m[i] * by + carry[i + 1]) \div 256
      low == [i \in 1..n |-> (m[i] * by + carry[i + 1]) % 256]
      top == carry[1]
  IN Normalize(<< top \div 65536, (top \div 256) % 256, top % 256 >> \o low)

\* the number the digits str[i..j] spell, for at most ChunkDigits digits
ChunkValue(str, i, j) ==
  LET v[k \in (i - 1)..j] == IF k = i - 1 THEN 0 ELSE v[k - 1] * 10 + str[k]
  IN v[j]

RECURSIVE ValueFrom(_, _, _)
\* the magnitude of m followed by the digits str[i..], a chunk at a time
ValueFrom(str, i, m) ==
  IF i > Len(str) THEN m
  ELSE LET left == Len(str) - i + 1
           c == IF left % ChunkDigits = 0 THEN ChunkDigits ELSE left % ChunkDigits
       IN CHOOSE value \in { ValueFrom(str, i + c, next) :
                               next \in {TimesPlus(m, PowersOfTen[c], ChunkValue(str, i, i + c - 1))} } :
            TRUE

\* the integer a decimal string spells, as a magnitude
ValueOfDecimal(str) == Normalize(ValueFrom(str, 1, <<>>))

\* C16: the string randomFieldElement returns is a canonical decimal numeral
\* (digits only, no sign, no leading zero) of an integer below the field
\* order, and that integer is exactly the big-endian value of the bytes
\* drawn, so nothing was reduced modulo the field.
C16_DrawBelowFieldOrder ==
  element # <<>> =>
    /\ \A i \in 1..Len(element) : element[i] \in 0..9
    /\ Len(element) = 1 \/ element[1] # 0
    /\ DecimalLess(element, FieldOrder)
    /\ ValueOfDecimal(element) = Normalize(bytes)

C16_Witness ==
  /\ Len(bytes) = 31 /\ \A i \in 1..31 : bytes[i] = 255
  /\ Len(element) = 75

Overspend(b) ==
  b.inputAmount.k = "num" /\ b.outputAmount.k = "num" /\ b.outputAmount.v > b.inputAmount.v

\* C11: for an unshield or transfer request whose outputAmount exceeds its
\* inputAmount the generator is never called and the response, once sent,
\* is a 400, whether changeAmount was supplied or left to be calculated.
C11_OverspendRejected ==
  (route \in {"unshield", "transfer"} /\ Overspend(body)) =>
    /\ op = "none"
    /\ routePc = "responded" => response.code = 400

\* C19: a response that is not the success response has exactly the fields
\* success = false and error (with its status code); a 400 is sent with the
\* generator never called; an error the generator threw is answered by a
\* 500 carrying that error; and only a generator result is answered by the
\* success response.
C19_StructuredErrors ==
  routePc = "responded" =>
    /\ response.code \in {200, 400, 500}
    /\ response.code # 200 =>
         /\ DOMAIN response = {"code", "success", "error"}
         /\ response.success = FALSE
    /\ response.code = 400 => op = "none" /\ pc = "idle" /\ proveCalls = 0
    /\ (op # "none" /\ result.status = "error") =>
         response.code = 500 /\ response.error = result.error
    /\ response.code = 200 <=> (op # "none" /\ result.status = "ok")

C19_Witness ==
  /\ route = "unshield" /\ routePc = "responded"
  /\ response = ErrorResponse(500, << "Unshield proof generation failed", "Assert Failed" >>)

\* the terminal coordinate of pi_a is the 64-digit hexadecimal one
LooksMock(p) == p.pi_a[3] = HexOne

OwnLocals(f) ==
  \E d \in [1..3 -> RandVals] :
    IF f.op = "shield"
    THEN /\ f.draws = DrawsMade(f.inputs.secret, f.inputs.nullifier, f.inputs.randomness, d)
         /\ f.locals = ShieldLocals(f.inputs, d)
    ELSE /\ f.draws = DrawsMade(f.inputs.changeSecret, f.inputs.changeNullifier,
                                f.inputs.changeRandomness, d)
         /\ f.locals = IF f.op = "unshield" THEN UnshieldLocals(f.inputs, d)
                       ELSE TransferLocals(f.inputs, d)

\* the result the call in frame f returns when it runs alone with the
\* inputs, draws and circuit files of f and the proof of its result
ResultAlone(f) ==
  LET in == f.inputs
      l == f.locals
      mock == ~f.sel.wasm \/ ~f.sel.zkey
      from == IF mock THEN "generateMockProof" ELSE "fullProve"
      outputAmount == Or(in.outputAmount, 0)
      changeAmount == Or(in.changeAmount, 0)
      recipient == Or(in.recipient, 0)
  IN IF f.op = "shield"
     THEN ShieldResult(from, f.result.proof,
            IF mock THEN ShieldMockSignals(l.commitment, in)
            ELSE ShieldCircuitSignals(l.commitment, Or(in.amount, 0), recipient), l)
     ELSE IF f.op = "unshield"
     THEN UnshieldResult(from, f.result.proof,
            IF mock THEN UnshieldMockSignals(l.nullifierHash, l.commitment, l.changeCommitment, in)
            ELSE UnshieldCircuitSignals(in.secret, in.nullifier, in.randomness,
                   l.changeSecret, l.changeNullifier, l.changeRandomness,
                   outputAmount, changeAmount, recipient), l)
     ELSE IF mock
     THEN TransferResult(from, f.result.proof,
            TransferMockSignals(l.nullifierHash, l.outputCommitment, l.changeCommitment, in),
            l.nullifierHash, l)
     ELSE TransferAfterVerify("true",
            Resolved(f.result.proof,
              TransferCircuitSignals(in.inputSecret, in.inputNullifier, in.inputRandomness,
                in.outputSecret, in.outputNullifier, in.outputRandomness,
                l.changeSecret, l.changeNullifier, l.changeRandomness,
                outputAmount, changeAmount, recipient)), l)

\* the call in frame f is where it would be had it run alone
RunsAsAlone(f) ==
  /\ (f.op \in Ops /\ f.sel.reached) => OwnLocals(f)
  /\ (f.op \in Ops /\ f.pc = "done" /\ f.result.status = "ok") =>
        /\ f.sel.reached
        /\ f.result = ResultAlone(f)
        /\ f.result.proofFrom = "fullProve" =>
              f.proved.outcome = "resolved" /\ f.result.proof = f.proved.proof
  /\ (f.op \in Ops /\ f.pc = "done" /\ f.result.status = "error" /\ f.sel.reached) =>
        \/ f.proved.outcome = "rejected" /\ f.result.error[2] = f.proved.diagnostic
        \/ f.op = "transfer" /\ f.proved.outcome = "resolved" /\ f.isValid = "false"
  /\ (f.op = "verify" /\ f.pc = "done") =>
        f.isValid = IF f.vkeySeen = "absent" THEN "true"
                    ELSE IF f.vkeySeen = "unreadable" THEN "false"
                    ELSE verifyProofAfterAwait(f.verdict)

\* C18: once the server listens, no step changes the service's state (the
\* poseidon instance and what initialize left), and whatever the order in
\* which two invocations in flight take their turns, each one holds the
\* constants made from its own inputs and draws and returns the result it
\* returns running alone with them.
C18_InvocationsIndependent ==
  /\ [][Serving => UNCHANGED << serverPc, initOutcome, poseidon >>]_vars
  /\ [](RunsAsAlone(Frame) /\ RunsAsAlone(parked))

C18_Witness ==
  /\ parked.op = "unshield" /\ parked.pc = "proving"
  /\ Returned("transfer") /\ result.proofFrom = "fullProve"
  /\ result = ResultAlone(Frame)

\* C20: while a fullProve is pending the thread is free: the event loop can
\* turn to another invocation, a shield, an unshield and a transfer can each
\* start with a fullProve of the other invocation still pending, and the
\* step that settles the running invocation's own await can be taken.
C20_PendingProveDoesNotBlock ==
  /\ (Serving /\ route = "none" /\ pc = "proving") => ENABLED Switch
  /\ (Serving /\ route = "none" /\ parked.pc = "proving" /\ pc = "idle") =>
        ENABLED concurrentShield /\ ENABLED concurrentUnshield /\ ENABLED concurrentTransfer
  /\ (parked.pc = "proving" /\ pc \in AwaitPoints) =>
        ENABLED (shieldProved \/ unshieldProved \/ transferProved
                 \/ transferVerified \/ verifyProofSettles)

C20_Witness ==
  /\ parked.op = "transfer" /\ parked.pc = "proving"
  /\ Returned("shield") /\ result.proofFrom = "fullProve"

\* C21: a transfer invocation that returns a proof of the backend, whose
\* ten signals are ordered public inputs first (outputAmount, changeAmount,
\* recipient) and the seven public outputs after them, returns as
\* nullifierHash the hash H(inputNullifier, inputRandomness), which is the
\* signal at index 3 of the publicSignals it returns.
C21_RealTransferNullifierHash ==
  (Returned("transfer") /\ result.proofFrom = "fullProve") =>
    /\ Len(result.publicSignals) = 10
    /\ result.nullifierHash = Poseidon(<< inputs.inputNullifier, inputs.inputRandomness >>)
    /\ result.nullifierHash = result.publicSignals[4]

\* C22: a transfer invocation that returns in mock mode, called with the
\* three secrets of the spent note, returns at index 4 of its signals a
\* defined field element, the commitment H(inputSecret, inputNullifier,
\* inputRandomness) of the spent note, whatever inputCommitment the caller
\* gave or left out.
C22_TransferMockInputCommitment ==
  ( /\ Returned("transfer") /\ MockMode
    /\ inputs.inputSecret # None /\ inputs.inputNullifier # None
    /\ inputs.inputRandomness # None ) =>
      /\ result.publicSignals[5] # None
      /\ result.publicSignals[5] =
           Poseidon(<< inputs.inputSecret, inputs.inputNullifier, inputs.inputRandomness >>)

\* the sum of two amounts in base units of one token, each held as
\* parseUnits packs it
UnitsSum(x, y) ==
  IF x = 0 THEN y
  ELSE IF y = 0 THEN x
  ELSE ((x \div 100) + (y \div 100)) * 100 + (x % 100)

\* inputAmount = outputAmount + changeAmount in the object a handler passed
Conserved(in) == in.inputAmount = UnitsSum(in.outputAmount, in.changeAmount)

\* C23: every call that POST /unshield and POST /transfer make of
\* generateUnshieldProof and generateTransferProof carries amounts in base
\* units with inputAmount = outputAmount + changeAmount, whether the body
\* gave changeAmount or the handler calculated it.
C23_ForwardedCallsConserveValue ==
  (route \in {"unshield", "transfer"} /\ op = route) => Conserved(inputs)

\* what an invocation found on disk, and the path it took
ArtifactAbsent(f) == ~f.sel.wasm \/ ~f.sel.zkey
MockReturned(f) ==
  /\ f.pc = "done" /\ f.result.status = "ok"
  /\ f.result.proofFrom = "generateMockProof" /\ f.proveCalls = 0
BackendInvoked(f) == f.proveCalls = 1 /\ f.result.proofFrom # "generateMockProof"

\* the two invocations of the service, the earlier and the later in either
\* order
InvocationPairs == { << parked, Frame >>, << Frame, parked >> }

\* C24: of two invocations of the same operation that both reached the
\* artifact check, each took the path its own check gave: when the
\* artifacts were absent for one and present for the other, the one
\* returned a mock proof without calling the backend and the other called
\* the backend once and returned no mock proof, whichever came first; an
\* invocation returned a mock proof exactly when its own check found an
\* artifact absent, whatever the other one found.
C24_ModeDecidedPerInvocation ==
  \A pair \in InvocationPairs :
    LET a == pair[1]
        b == pair[2]
    IN (a.op \in Ops /\ a.op = b.op /\ a.sel.reached /\ b.sel.reached) =>
         /\ (ArtifactAbsent(a) /\ ~ArtifactAbsent(b)) =>
               MockReturned(a) /\ BackendInvoked(b)
         /\ MockReturned(b) <=> ArtifactAbsent(b)
         /\ BackendInvoked(b) <=> ~ArtifactAbsent(b)

C24_Witness ==
  /\ parked.op = "shield" /\ MockReturned(parked) /\ ArtifactAbsent(parked)
  /\ parked.sel.reached
  /\ Returned("shield") /\ sel.reached /\ sel.wasm /\ sel.zkey
  /\ result.proofFrom = "fullProve" /\ proveCalls = 1

====
